---- MODULE Spec2Model ----
(***************************************************************************)
(* Model of the impedance signal pipeline.                                 *)
(*                                                                         *)
(* Part 1: TimeValueSampleQueue (src/TimeValueSample.py): push, clear,     *)
(* filled and copy_samples.                                                *)
(*                                                                         *)
(* Timestamps, durations, periods and values are integers (ticks); the     *)
(* rational timestamps that resampling produces are kept exactly, as a     *)
(* numerator tn over the denominator den of the call.  Floating-point      *)
(* rounding error is not modelled.                                         *)
(*                                                                         *)
(* Part 2: DataProcessor (src/DataProcessor.py): the segmentation helpers  *)
(* slice_values_into_periods and                                           *)
(* find_period_slices_with_greatest_average_variance on concrete arrays,   *)
(* and the analysis pass process_samples; calculate_scores.                *)
(***************************************************************************)
EXTENDS Integers, Sequences, FiniteSets, TLC

(* ---------------------------- bounds ---------------------------------- *)
MaxTime == 3
MaxValue == 1
MaxDuration == 2
MaxPeriod == 2
\* Part 2, segmentation helpers: array length and period length in samples
MaxLen == 6
MaxPeriodLength == 3

Times == -1..MaxTime
Values == 0..MaxValue
\* durations a queue is constructed with: __init__ accepts any number
Durations == -1..MaxDuration
\* desired_period arguments of copy_samples: None (the default) or a number
None == [none |-> TRUE, n |-> 0]
Number(n) == [none |-> FALSE, n |-> n]
Periods == {None} \cup {Number(n) : n \in -1..MaxPeriod}
\* Python truthiness of an optional number: None and 0 are falsy
Truthy(p) == ~p.none /\ p.n # 0

VARIABLES
    duration,   \* TimeValueSampleQueue._duration
    queue,      \* TimeValueSampleQueue._queue, oldest first
    filled,     \* TimeValueSampleQueue._filled
    ret,        \* the last call on the queue and its outcome
    prev,       \* history: the clear call, if the call before ret was one
    evicted,    \* history: push has removed a sample since __init__ / clear
    \* segmentation helpers (Part 2)
    values,         \* the values array handed to the helper
    period_length,  \* its period_length argument, in samples
    sliced,         \* the last helper call and what it returned
    \* DataProcessor (Part 2)
    detected_respiratory_period_length,     \* None or a period, in ticks
    first_detected_respiratory_cycle_time,  \* None or a timestamp
    respiratory_cycle_data,                 \* the cycle history, oldest first
    vae_score,      \* calculate_scores: the VAE score it reports
    sqi,            \* calculate_scores: the SQI it reports
    alarm_sounded,  \* calculate_scores: it called sound_alarm
    last_pass,      \* the window of the last analysis pass (its inputs)
    \* DataProcessor.data_callback and its debugging delegate
    last_analysis_time,             \* None or the timestamp of the last pass
    graphical_debugging_delegate,   \* "gui" or "None"
    graphed,        \* per label: the last timestamp handed to the delegate
                    \* and whether all of them came strictly increasing
    callback,       \* the last data_callback call and what it did
    \* impedance.py --replay and FileDataSource
    replay_file,    \* the file at args.replay: missing, unreadable, or rows
    main,           \* where the main program is, or how it ended
    source,         \* the data source object, once constructed
    delivered,      \* what the source has handed to its callback, in order
    \* the threads: the source's background thread and the Qt event loop
    thread,         \* where the source's background thread is
    posted,         \* the events queued for the main thread, oldest first
    running,        \* the threads inside data_event_callback
    handled         \* the data_callback calls begun: thread and sample

qvars == <<duration, queue, filled, ret, prev, evicted>>
slvars == <<values, period_length, sliced>>
dpvars == <<detected_respiratory_period_length,
            first_detected_respiratory_cycle_time, respiratory_cycle_data,
            vae_score, sqi, alarm_sounded, last_pass>>
cbvars == <<last_analysis_time, graphical_debugging_delegate, graphed, callback>>
srcvars == <<replay_file, main, source, delivered>>
thvars == <<thread, posted, running, handled>>
vars == <<qvars, slvars, dpvars, cbvars, srcvars, thvars>>

(* ------------------------- TimeValueSample ----------------------------- *)
TimeValueSample(t, v) == [t |-> t, v |-> v]

\* An output sample of copy_samples: its timestamp is tn / den of the call.
OutSample(tn, v) == [tn |-> tn, v |-> v]

\* copy_with(new_time, new_value): "new_time if new_time else self.t", so a
\* new time of 0 and a new value of 0 are falsy and the receiver's own
\* field is kept.  new_time is tn/den; self.t is written over den as well.
copy_with(self, tn, new_value, den) ==
    OutSample(IF tn # 0 THEN tn ELSE self.t * den,
              IF new_value # 0 THEN new_value ELSE self.v)

(* ----------------------- TimeValueSampleQueue -------------------------- *)
\* line 34: len(self._queue) > 0 and sample.t <= self._queue[-1].t
out_of_order_lt(q, sample) == Len(q) > 0 /\ sample.t < q[Len(q)].t
out_of_order(q, sample) == Len(q) > 0 /\ sample.t <= q[Len(q)].t

\* lines 43-45: while the span exceeds the duration, popleft and set _filled
pop_stale_once(q, f, d) ==
    IF Len(q) > 0 /\ q[Len(q)].t - q[1].t > d
    THEN [queue |-> Tail(q), filled |-> TRUE]
    ELSE [queue |-> q, filled |-> f]
pop_stale_no_flag(q, f, d) ==
    [queue |-> SelectSeq(q, LAMBDA s : q[Len(q)].t - s.t <= d), filled |-> f]
RECURSIVE pop_stale(_, _, _)
pop_stale(q, f, d) ==
    IF Len(q) > 0 /\ q[Len(q)].t - q[1].t > d
    THEN pop_stale(Tail(q), TRUE, d)
    ELSE [queue |-> q, filled |-> f]

\* push (lines 33-45).  raised is the exception that leaves the call.
push_append_first(q, f, d, sample, ignore) ==
    LET ooo == out_of_order(q, sample)
        r == pop_stale(Append(q, sample), f, d)
    IN  IF ooo /\ ignore
        THEN [queue |-> q, filled |-> f, raised |-> "none", appended |-> FALSE]
        ELSE IF ooo
        THEN [queue |-> r.queue, filled |-> r.filled,
              raised |-> "AssertionError", appended |-> TRUE]
        ELSE [queue |-> r.queue, filled |-> r.filled,
              raised |-> "none", appended |-> TRUE]
push_ignore_appends(q, f, d, sample, ignore) ==
    LET ooo == out_of_order(q, sample)
        r == pop_stale(Append(q, sample), f, d)
    IN  IF ooo /\ ~ignore
        THEN [queue |-> q, filled |-> f,
              raised |-> "AssertionError", appended |-> FALSE]
        ELSE [queue |-> r.queue, filled |-> r.filled,
              raised |-> "none", appended |-> TRUE]
push(q, f, d, sample, ignore) ==
    LET ooo == out_of_order(q, sample)
        r == pop_stale(Append(q, sample), f, d)
    IN  IF ooo /\ ignore
        THEN \* line 36: sample = None, so the body of "if sample" is skipped
             [queue |-> q, filled |-> f, raised |-> "none", appended |-> FALSE]
        ELSE IF ooo
        THEN \* line 39: the assertion fails before anything is stored
             [queue |-> q, filled |-> f,
              raised |-> "AssertionError", appended |-> FALSE]
        ELSE [queue |-> r.queue, filled |-> r.filled,
              raised |-> "none", appended |-> TRUE]

\* clear (lines 47-50)
clear_keeps_filled(q, f) == [queue |-> <<>>, filled |-> f]
clear(q, f) == [queue |-> <<>>, filled |-> FALSE]

(* --------------------------- copy_samples ------------------------------ *)
\* Python round(a / b) for a >= 0, b > 0: round half to even.
Round(a, b) ==
    LET qd == a \div b
        r == a % b
    IN  IF 2 * r < b THEN qd
        ELSE IF 2 * r > b THEN qd + 1
        ELSE IF qd % 2 = 0 THEN qd ELSE qd + 1

\* line 72: num_samples = round((stop_time - start_time) / desired_period) + 1
num_samples(q, p) == Round(q[Len(q)].t - q[1].t, p) + 1

\* line 91: scipy.signal.resample(values, num_samples, times) returns the
\* times  arange(num) * (t[1] - t[0]) * Nx / num + t[0];  this is their
\* numerator over num, for index i = 0 .. num-1.
resampled_time(q, num, i) == i * (q[2].t - q[1].t) * Len(q) + num * q[1].t

\* The values scipy.signal.resample returns: the input itself when the
\* length is unchanged (an FFT round trip); otherwise a band-limited
\* interpolation, which is not computed here: each output is left open
\* between zero and a non-zero level, the one distinction the code makes
\* on a resampled value (copy_with tests its truthiness).
resampled_values(q, num) ==
    IF num = Len(q)
    THEN {[i \in 1..num |-> q[i].v]}
    ELSE [1..num -> {0, 1}]

\* lines 95-97: drop the originals older than t - desired_period / 2
RECURSIVE cull(_, _, _, _)
cull(rem, tn, num, p) ==
    IF Len(rem) > 0 /\ 2 * num * rem[1].t < 2 * tn - p * num
    THEN cull(Tail(rem), tn, num, p)
    ELSE rem

\* lines 94-102: one output sample per resampled (value, time) pair
RECURSIVE align(_, _, _, _, _, _)
align(rem, i, num, p, q, y) ==
    IF i >= num THEN <<>>
    ELSE LET tn == resampled_time(q, num, i)
             c == cull(rem, tn, num, p)
             hit == Len(c) > 0 /\ 2 * num * c[1].t < 2 * tn + p * num
             aligned_sample == IF hit THEN copy_with(c[1], tn, y[i + 1], num)
                               ELSE OutSample(tn, y[i + 1])
         IN  <<aligned_sample>> \o
             align(IF hit THEN Tail(c) ELSE c, i + 1, num, p, q, y)

\* list(self._queue), line 68
queue_copy(q) == [i \in 1..Len(q) |-> OutSample(q[i].t, q[i].v)]

\* line 64: assert not desired_period or desired_period > 0.0
period_assertion(p) == ~Truthy(p) \/ p.n > 0

RECURSIVE Sum(_)
Sum(seq) == IF seq = <<>> THEN 0 ELSE Head(seq) + Sum(Tail(seq))

\* lines 76-85: resample stays True unless the sample count is num_samples
\* and max_error < desired_period * 0.5.  After line 82 every element of
\* aligned_times - times is -average_error, the mean of the times minus the
\* middle of the span, so max_error is (2 * sum(t) - n * (start + stop)) / 2n
resample(q, p) ==
    LET n == Len(q)
        times == [i \in 1..n |-> q[i].t]
    IN  ~(/\ num_samples(q, p) = n
          /\ 2 * Sum(times) - n * (q[1].t + q[n].t) < p * n)

\* lines 103-106: the samples relabelled with times - average_error, over
\* the denominator 2n
relabelled(q) ==
    LET n == Len(q)
        times == [i \in 1..n |-> q[i].t]
        shift == 2 * Sum(times) - n * (q[1].t + q[n].t)
    IN  [i \in 1..n |-> copy_with(q[i], 2 * n * q[i].t + shift, 0, 2 * n)]

\* copy_samples (lines 56-108); y is the resampled value sequence.
\* resampled tells whether scipy.signal.resample was called.
copy_samples(q, p, y) ==
    IF ~period_assertion(p)
    THEN [raised |-> "AssertionError", den |-> 1, samples |-> <<>>,
          resampled |-> FALSE]
    ELSE IF ~Truthy(p) \/ Len(q) = 0
    THEN \* line 67: not desired_period or len(self._queue) == 0
         [raised |-> "none", den |-> 1, samples |-> queue_copy(q),
          resampled |-> FALSE]
    ELSE IF resample(q, p.n) \/ TRUE
    THEN \* line 88: if resample or True
         IF Len(q) = 1
         THEN \* line 91: resample reads times[1] of a one-element array
              [raised |-> "IndexError", den |-> 1, samples |-> <<>>,
               resampled |-> TRUE]
         ELSE LET num == num_samples(q, p.n)
              IN  [raised |-> "none", den |-> num,
                   samples |-> align(q, 0, num, p.n, q, y),
                   resampled |-> TRUE]
    ELSE [raised |-> "none", den |-> 2 * Len(q), samples |-> relabelled(q),
          resampled |-> FALSE]

(* ----------------------------- actions --------------------------------- *)
\* ret records the last call: its arguments and what it raised or returned.
\* For clear, t is the newest timestamp the queue held when it was cleared.
NoCall == [op |-> "init", raised |-> "none", t |-> 0, v |-> 0, ignore |-> FALSE,
           appended |-> FALSE, p |-> None, den |-> 1, samples |-> <<>>,
           resampled |-> FALSE, y |-> <<>>]

\* what prev keeps: whether the call before the last one was a clear, and
\* then whether it removed samples and the newest timestamp it removed
Brief(r) ==
    IF r.op = "clear"
    THEN [clear |-> TRUE, t |-> r.t, appended |-> r.appended]
    ELSE [clear |-> FALSE, t |-> 0, appended |-> FALSE]

\* no segmentation helper has been called
NoSlicing == [op |-> "none", offset |-> 0, is_reversed |-> FALSE,
              searched |-> <<>>, slices |-> <<>>, start_indexes |-> <<>>]
SliceIdle == values = <<>> /\ period_length = 1 /\ sliced = NoSlicing

\* DataProcessor.__init__ (src/DataProcessor.py lines 65-69): nothing
\* detected, empty history; no pass has run
NoPeriodLength == [none |-> TRUE, num |-> 0, den |-> 1]
NoPass == [run |-> FALSE, w |-> 0, len |-> 0, bin |-> 0, average |-> 0,
           offset |-> 0, popped |-> 0,
           stat |-> [the_min |-> 0, min_percentile |-> 0,
                     max_percentile |-> 0, the_max |-> 0]]
\* the labels of the series process_samples and store_data_for_new_slice
\* hand to the delegate (lines 113, 178-181)
Labels == {"Uniform", "Respiratory minimum peaks", "Respiratory maximum peaks",
           "Respiratory 5%-ile", "Respiratory 95%-ile"}
PeakLabels == Labels \ {"Uniform"}
NoTime == [none |-> TRUE, num |-> 0, den |-> 1]
NothingGraphed == [l \in Labels |-> [last |-> NoTime, increasing |-> TRUE]]
NoCallback == [op |-> "init", t |-> 0, raised |-> "none", calls |-> <<>>]

\* no replay: no file is read and no FileDataSource is asked for
NoFile == [status |-> "none", rows |-> <<>>]
NoSource == [class |-> "None", stopped |-> TRUE, samples |-> <<>>,
             callback_function |-> "None"]
\* no background thread has been started and no event is queued
NoThread == [pc |-> "none", i |-> 0, loaded |-> "None", raised |-> "none"]
ThreadIdle ==
    /\ thread = NoThread
    /\ posted = <<>>
    /\ running = <<>>
    /\ handled = <<>>
SrcIdle ==
    /\ replay_file = NoFile
    /\ main = "main"
    /\ source = NoSource
    /\ delivered = <<>>
    /\ ThreadIdle

\* DataProcessor.__init__ with a delegate (lines 62-66), before any sample
CBIdle ==
    /\ last_analysis_time = None
    /\ graphical_debugging_delegate = "gui"
    /\ graphed = NothingGraphed
    /\ callback = NoCallback

DPIdle ==
    /\ detected_respiratory_period_length = NoPeriodLength
    /\ first_detected_respiratory_cycle_time = None
    /\ respiratory_cycle_data = <<>>
    /\ vae_score = 0
    /\ sqi = 0
    /\ alarm_sounded = FALSE
    /\ last_pass = NoPass

\* __init__ (lines 28-31): any duration is stored, nothing is validated
Init ==
    /\ duration \in Durations
    /\ queue = <<>>
    /\ filled = FALSE
    /\ ret = NoCall
    /\ prev = Brief(NoCall)
    /\ evicted = FALSE
    /\ SliceIdle
    /\ DPIdle
    /\ CBIdle
    /\ SrcIdle

Push ==
    \E t \in Times, v \in Values, ignore \in BOOLEAN :
        LET r == push(queue, filled, duration, TimeValueSample(t, v), ignore)
        IN  /\ queue' = r.queue
            /\ filled' = r.filled
            /\ ret' = [NoCall EXCEPT !.op = "push", !.raised = r.raised,
                                     !.t = t, !.v = v, !.ignore = ignore,
                                     !.appended = r.appended]
            /\ prev' = Brief(ret)
            \* a sample left the queue in this call
            /\ evicted' = (evicted \/
                           (r.appended /\ Len(r.queue) < Len(queue) + 1))
            /\ UNCHANGED <<duration, slvars, dpvars, cbvars, srcvars, thvars>>

Clear ==
    LET r == clear(queue, filled)
    IN  /\ queue' = r.queue
        /\ filled' = r.filled
        /\ ret' = [NoCall EXCEPT !.op = "clear",
                                 !.appended = Len(queue) > 0,
                                 !.t = IF Len(queue) > 0
                                       THEN queue[Len(queue)].t ELSE 0]
        /\ prev' = Brief(ret)
        /\ evicted' = FALSE
        /\ UNCHANGED <<duration, slvars, dpvars, cbvars, srcvars, thvars>>

CopySamples ==
    \E p \in Periods :
        LET resampling == ~p.none /\ p.n > 0 /\ Len(queue) > 1
            num == IF resampling THEN num_samples(queue, p.n) ELSE 0
        IN  \E y \in (IF resampling THEN resampled_values(queue, num) ELSE {<<>>}) :
                LET r == copy_samples(queue, p, y)
                IN  /\ ret' = [NoCall EXCEPT !.op = "copy_samples",
                                             !.raised = r.raised, !.p = p,
                                             !.den = r.den, !.samples = r.samples,
                                             !.resampled = r.resampled,
                                             !.y = y]
                    /\ prev' = Brief(ret)
                    /\ UNCHANGED <<duration, queue, filled, evicted, slvars, dpvars, cbvars, srcvars, thvars>>

Next == Push \/ Clear \/ CopySamples

Spec == Init /\ [][Next]_vars

(***************************************************************************)
(* Part 2a: segmentation helpers of DataProcessor on concrete arrays       *)
(***************************************************************************)
RECURSIVE Flatten(_)
Flatten(seqs) == IF seqs = <<>> THEN <<>> ELSE Head(seqs) \o Flatten(Tail(seqs))

Min2(a, b) == IF a < b THEN a ELSE b

\* Python values[start:end] for 0 <= start: the part inside the array
PySlice(vals, start, end) == SubSeq(vals, start + 1, Min2(end, Len(vals)))

\* slice_values_into_periods (lines 281-292)
slice_values_any_end(vals, pl, offset) ==
    LET num_slices == Len(vals) \div pl
        starts == SelectSeq([i \in 1..num_slices |-> (i - 1) * pl + offset],
                            LAMBDA st : st < Len(vals))
    IN  [slices |-> [j \in 1..Len(starts) |-> PySlice(vals, starts[j], starts[j] + pl)],
         start_indexes |-> starts]
slice_values_into_periods(vals, pl, offset) ==
    LET num_slices == Len(vals) \div pl
        \* line 288: only complete slices are returned
        starts == SelectSeq([i \in 1..num_slices |-> (i - 1) * pl + offset],
                            LAMBDA st : st + pl <= Len(vals))
    IN  [slices |-> [j \in 1..Len(starts) |-> PySlice(vals, starts[j], starts[j] + pl)],
         start_indexes |-> starts]

\* np.var of a list of equal-length slices: the variance of all their
\* elements, (m * sum(x^2) - sum(x)^2) / m^2; nan for no element.
np_var(slices) ==
    LET x == Flatten(slices)
        m == Len(x)
    IN  [nan |-> m = 0,
         num |-> m * Sum([i \in 1..m |-> x[i] * x[i]]) - Sum(x) * Sum(x),
         den |-> m * m]

\* variance > best_variance (line 275); a comparison with nan is false
var_greater(v, best) ==
    ~v.nan /\ ~best.nan /\ v.num * best.den > best.num * v.den

\* lines 265-266: np.array_split(values, 2) gives the first half the extra
\* element; is_reversed = average(first) < average(second), false on nan
first_half(vals) == SubSeq(vals, 1, (Len(vals) + 1) \div 2)
second_half(vals) == SubSeq(vals, (Len(vals) + 1) \div 2 + 1, Len(vals))
is_reversed_le(vals) ==
    LET h0 == first_half(vals)
        h1 == second_half(vals)
    IN  Len(h0) > 0 /\ Len(h1) > 0 /\ Sum(h0) * Len(h1) <= Sum(h1) * Len(h0)
is_reversed_of(vals) ==
    LET h0 == first_half(vals)
        h1 == second_half(vals)
    IN  Len(h0) > 0 /\ Len(h1) > 0 /\ Sum(h0) * Len(h1) < Sum(h1) * Len(h0)

\* lines 270-272: offset = round(period_length * offset_fraction) for the
\* step-th of the 5 fractions of np.linspace(start, start + 0.5, 5),
\* start = 0.5 if is_reversed else 0.0, i.e. (4 * start_half + step) / 8
steps == 5
candidate_offset(pl, reversed, step) ==
    Round(pl * ((IF reversed THEN 4 ELSE 0) + step), 8)

\* find_period_slices_with_greatest_average_variance (lines 262-279)
RECURSIVE best_candidate(_, _, _, _, _)
best_candidate(vals, pl, reversed, step, best) ==
    IF step >= steps THEN best
    ELSE LET offset == candidate_offset(pl, reversed, step)
             r == slice_values_into_periods(vals, pl, offset)
             variance == np_var(r.slices)
             cand == [slices |-> r.slices, start_indexes |-> r.start_indexes,
                      variance |-> variance, offset |-> offset]
         IN  best_candidate(vals, pl, reversed, step + 1,
                            IF step = 0 \/ var_greater(variance, best.variance)
                            THEN cand ELSE best)

\* searched lists the offsets of the loop of line 269 in the order tried
find_period_slices_with_greatest_average_variance(vals, pl) ==
    LET is_reversed == is_reversed_of(vals)
        best == best_candidate(vals, pl, is_reversed, 0,
                               [slices |-> <<>>, start_indexes |-> <<>>,
                                variance |-> [nan |-> TRUE, num |-> 0, den |-> 1],
                                offset |-> 0])
    IN  [slices |-> best.slices, start_indexes |-> best.start_indexes,
         variance |-> best.variance, offset |-> best.offset,
         is_reversed |-> is_reversed,
         searched |-> [i \in 1..steps |-> candidate_offset(pl, is_reversed, i - 1)]]

\* the arrays and period lengths the helpers are applied to
Arrays == UNION {[1..n -> Values] : n \in 0..MaxLen}
PeriodLengths == 1..MaxPeriodLength

QueueIdle ==
    /\ duration = 0 /\ queue = <<>> /\ filled = FALSE
    /\ ret = NoCall /\ prev = Brief(NoCall) /\ evicted = FALSE

SliceInit ==
    /\ QueueIdle
    /\ values \in Arrays
    /\ period_length \in PeriodLengths
    /\ sliced = NoSlicing
    /\ DPIdle
    /\ CBIdle
    /\ SrcIdle

\* one call of slice_values_into_periods with a candidate offset
SliceValuesIntoPeriods ==
    \E reversed \in BOOLEAN, step \in 0..(steps - 1) :
        LET offset == candidate_offset(period_length, reversed, step)
            r == slice_values_into_periods(values, period_length, offset)
        IN  /\ sliced' = [NoSlicing EXCEPT !.op = "slice_values_into_periods",
                                           !.offset = offset,
                                           !.slices = r.slices,
                                           !.start_indexes = r.start_indexes]
            /\ UNCHANGED <<qvars, values, period_length, dpvars, cbvars, srcvars, thvars>>

\* one call of find_period_slices_with_greatest_average_variance
FindPeriodSlices ==
    LET r == find_period_slices_with_greatest_average_variance(values, period_length)
    IN  /\ sliced' = [NoSlicing EXCEPT !.op = "find_period_slices",
                                       !.offset = r.offset,
                                       !.is_reversed = r.is_reversed,
                                       !.searched = r.searched,
                                       !.slices = r.slices,
                                       !.start_indexes = r.start_indexes]
        /\ UNCHANGED <<qvars, values, period_length, dpvars, cbvars, srcvars, thvars>>

SliceNext == SliceValuesIntoPeriods \/ FindPeriodSlices

SliceSpec == SliceInit /\ [][SliceNext]_vars

(***************************************************************************)
(* Part 2b: the analysis pass of DataProcessor: process_samples followed   *)
(* by calculate_scores, as data_callback runs them (lines 78-80).          *)
(* Time is counted in ticks of one sampling period. A pass reads a window  *)
(* of len evenly spaced values starting at timestamp w. The values enter   *)
(* the pass through what the code computes from them: their average, the   *)
(* periodogram bin with the greatest power, the candidate offset that wins *)
(* the variance search, and the statistics of a slice.                     *)
(***************************************************************************)
\* sampling_period (line 61) is 1 / sampling_rate seconds
sampling_rate == 2

\* class constants, lines 48-59
SAMPLE_ANALYSIS_INTERVAL == 20 * sampling_rate
SAMPLE_ANALYSIS_PERIOD == 10 * sampling_rate
MIN_RESPIRATORY_FREQUENCY == [num |-> 8, den |-> 60]
MAX_RESPIRATORY_FREQUENCY == [num |-> 30, den |-> 60]
MAX_RESPIRATORY_CYCLE_DATA_TO_KEEP == 15
MIN_PLAUSIBLE_IMPEDANCE == 10
MAX_PLAUSIBLE_IMPEDANCE == 500

Max2(a, b) == IF a > b THEN a ELSE b
Abs(a) == IF a < 0 THEN -a ELSE a

\* the dataclass RespiratoryCycleData (lines 26-33); cycle_duration is the
\* rational num / den
RespiratoryCycleData(stat, timestamp, cycle_duration) ==
    [the_min |-> stat.the_min, the_max |-> stat.the_max,
     min_percentile |-> stat.min_percentile,
     max_percentile |-> stat.max_percentile,
     timestamp |-> timestamp,
     cycle_duration |-> [num |-> cycle_duration.num, den |-> cycle_duration.den]]

\* is_timestamp_coincident (line 41):
\* abs(self.timestamp - timestamp) < self.cycle_duration / 2.0
is_timestamp_coincident_le(data, timestamp) ==
    2 * data.cycle_duration.den * Abs(data.timestamp - timestamp)
        <= data.cycle_duration.num
is_timestamp_coincident(data, timestamp) ==
    2 * data.cycle_duration.den * Abs(data.timestamp - timestamp)
        < data.cycle_duration.num

\* line 119: MIN_PLAUSIBLE_IMPEDANCE < average < MAX_PLAUSIBLE_IMPEDANCE
average_plausible(average) ==
    MIN_PLAUSIBLE_IMPEDANCE < average /\ average < MAX_PLAUSIBLE_IMPEDANCE

\* lines 122-123: bin `bin` of the periodogram of len values sampled at
\* sampling_rate Hz is the frequency bin * sampling_rate / len
dominant_frequency(len, bin) == [num |-> bin * sampling_rate, den |-> len]

\* line 129: MIN_RESPIRATORY_FREQUENCY <= dominant_frequency <= MAX_...
frequency_in_band_lt(f) ==
    /\ MIN_RESPIRATORY_FREQUENCY.num * f.den < f.num * MIN_RESPIRATORY_FREQUENCY.den
    /\ f.num * MAX_RESPIRATORY_FREQUENCY.den < MAX_RESPIRATORY_FREQUENCY.num * f.den
frequency_in_band(f) ==
    /\ MIN_RESPIRATORY_FREQUENCY.num * f.den <= f.num * MIN_RESPIRATORY_FREQUENCY.den
    /\ f.num * MAX_RESPIRATORY_FREQUENCY.den <= MAX_RESPIRATORY_FREQUENCY.num * f.den

\* lines 182-185: while len(...) > MAX_..._TO_KEEP: pop(0)
RECURSIVE trim_second(_, _)
trim_second(data, popped) ==
    IF Len(data) > MAX_RESPIRATORY_CYCLE_DATA_TO_KEEP
    THEN trim_second(<<Head(data)>> \o Tail(Tail(data)), popped + 1)
    ELSE [data |-> data, popped |-> popped]
RECURSIVE trim(_, _)
trim(data, popped) ==
    IF Len(data) > MAX_RESPIRATORY_CYCLE_DATA_TO_KEEP
    THEN trim(Tail(data), popped + 1)
    ELSE [data |-> data, popped |-> popped]

\* store_data_for_new_slice (lines 163-185): append the slice's record with
\* the detected period as its cycle_duration, then trim
store_data_for_new_slice(data, stat, timestamp, period) ==
    trim(Append(data, RespiratoryCycleData(stat, timestamp, period)), 0)

\* lines 142-151: each slice in turn is stored unless an entry of the
\* history, as it then stands, is coincident with its start timestamp
RECURSIVE store_slices(_, _, _, _, _, _, _)
store_slices(data, start_indexes, w, stat, period, popped, stored) ==
    IF start_indexes = <<>>
    THEN [data |-> data, popped |-> popped, stored |-> stored]
    ELSE LET timestamp == w + Head(start_indexes)
             is_new == \A i \in 1..Len(data) :
                           ~is_timestamp_coincident(data[i], timestamp)
             r == IF is_new
                  THEN store_data_for_new_slice(data, stat, timestamp, period)
                  ELSE [data |-> data, popped |-> 0]
         IN  store_slices(r.data, Tail(start_indexes), w, stat, period,
                          popped + r.popped,
                          IF is_new THEN Append(stored, timestamp) ELSE stored)

\* lines 155-161: nothing detected
no_detection_keeps_first(first, data) ==
    [period |-> NoPeriodLength, first |-> first, data |-> data, popped |-> 0,
     stored |-> <<>>]
no_detection(first, data) ==
    [period |-> NoPeriodLength, first |-> None, data |-> data, popped |-> 0,
     stored |-> <<>>]

\* lines 134-137: 1.0 / dominant_frequency, in ticks len / bin;
\* `if not self.first_detected_respiratory_cycle_time` is also true of 0.0
PeriodLength(len, bin) == [none |-> FALSE, num |-> len, den |-> bin]
first_detected_unmarked(first, w) == first
first_detected(first, w) == IF ~Truthy(first) THEN Number(w) ELSE first

\* lines 130-151: a respiratory cycle detected
detection(first, data, w, len, bin, offset, stat) ==
    LET period == PeriodLength(len, bin)
        \* line 139: round(period / sampling_period)
        period_length_in_samples == Round(len, bin)
        window == [i \in 1..len |-> 0]
        start_indexes ==
            slice_values_into_periods(window, period_length_in_samples,
                                      offset).start_indexes
        r == store_slices(data, start_indexes, w, stat, period, 0, <<>>)
    IN  [period |-> period, first |-> first_detected(first, w),
         data |-> r.data, popped |-> r.popped, stored |-> r.stored]

\* process_samples (lines 110-161)
process_samples(first, data, w, len, bin, average, offset, stat) ==
    IF average_plausible(average) /\ frequency_in_band(dominant_frequency(len, bin))
    THEN detection(first, data, w, len, bin, offset, stat)
    ELSE no_detection(first, data)

\* m^2 times np.var of a sequence of m numbers
VarNum(x) == Len(x) * Sum([i \in 1..Len(x) |-> x[i] * x[i]]) - Sum(x) * Sum(x)

\* lines 196-197: data[-10:-1], the up to 9 entries before the last
score_last_number_of_datas == 10
recent_datas_except_current(data) ==
    SubSeq(data, Max2(1, Len(data) - score_last_number_of_datas + 1), Len(data) - 1)

\* lines 199-205: the increases of the last entry over the averages of the
\* recent ones, times their number
min_increase(data) ==
    LET recent == recent_datas_except_current(data)
    IN  Len(recent) * data[Len(data)].min_percentile
            - Sum([i \in 1..Len(recent) |-> recent[i].min_percentile])
max_increase(data) ==
    LET recent == recent_datas_except_current(data)
    IN  Len(recent) * data[Len(data)].max_percentile
            - Sum([i \in 1..Len(recent) |-> recent[i].max_percentile])

\* line 206: if min_increase > 0 and max_increase > 0
paired_increase_or(data) == min_increase(data) > 0 \/ max_increase(data) > 0
paired_increase(data) == min_increase(data) > 0 /\ max_increase(data) > 0

\* line 208: round((min_increase + max_increase) / 10.0 * 50), for the
\* increases times c
magnitude_points(mi, ma, c) == Round(50 * (mi + ma), 10 * c)

\* lines 209-212: ratio = max_increase / min_increase, inverted when above
\* 1, and round(max(1.0 - ratio, 0.0) * 50)
symmetry_bonus(mi, ma) ==
    LET small == IF ma > mi THEN mi ELSE ma
        large == IF ma > mi THEN ma ELSE mi
    IN  Round(50 * (large - small), large)

\* lines 195-212
vae_points(data) ==
    IF Len(data) > 2 /\ paired_increase(data)
    THEN LET c == Len(recent_datas_except_current(data))
             mi == min_increase(data)
             ma == max_increase(data)
         IN  magnitude_points(mi, ma, c) + symmetry_bonus(mi, ma)
    ELSE 0

\* line 191: sqi_alarm = False, and no later assignment
sqi_alarm == FALSE

\* line 215: tracking and a history to compare with
sqi_scored_untracked(period, data) == Len(data) > 0
sqi_scored(period, data) == (~period.none /\ period.num # 0) /\ Len(data) > 0

\* line 218: up to 50 points for the length of the history
history_points(data) ==
    Min2((Len(data) * 50) \div score_last_number_of_datas, 50)

\* lines 221-222: round(max(time_tracking / 6.0, 20)), seconds = ticks /
\* sampling_rate
time_tracking(first, data) == data[Len(data)].timestamp - first.n
stability_points(first, data) ==
    IF time_tracking(first, data) <= 20 * 6 * sampling_rate THEN 20
    ELSE Round(time_tracking(first, data), 6 * sampling_rate)

\* lines 229-246: the rounded sum of the three weighted variance components
trend_points(data) ==
    LET m == Len(data)
        min_percentiles == [i \in 1..m |-> data[i].min_percentile]
        max_percentiles == [i \in 1..m |-> data[i].max_percentile]
        mins == [i \in 1..m |-> data[i].the_min]
        maxs == [i \in 1..m |-> data[i].the_max]
        tidal == [i \in 1..m |-> data[i].max_percentile - data[i].min_percentile]
        \* lines 229-240, each times 2 * m^2
        percentile_c == 2 * Max2(10 * m * m - (VarNum(min_percentiles) + VarNum(max_percentiles)), 0)
        absolute_c == Max2(10 * m * m - (VarNum(mins) + VarNum(maxs)), 0)
        tidal_c == 3 * Max2(10 * m * m - VarNum(tidal), 0)
        \* lines 242-246
        aggregate == Round(percentile_c + absolute_c + tidal_c, 2 * m * m)
    IN  aggregate + (IF sqi_alarm /\ aggregate < 20 THEN 10 ELSE 0)

\* lines 215-246
sqi_points(period, first, data) ==
    IF sqi_scored(period, data)
    THEN history_points(data) + stability_points(first, data) + trend_points(data)
    ELSE 0

\* calculate_scores (lines 187-253)
calculate_scores(period, first, data) ==
    [vae_score |-> vae_points(data), sqi |-> sqi_points(period, first, data),
     \* lines 250-251: if sqi_alarm: self.sound_alarm()
     alarm_sounded |-> sqi_alarm]

\* the statistics of a slice: min <= 5th percentile <= 95th <= max
Stat(lo, p5, p95, hi) ==
    [the_min |-> lo, min_percentile |-> p5, max_percentile |-> p95, the_max |-> hi]
FlatStat == Stat(100, 100, 140, 140)

\* the offsets the variance search can settle on (lines 268-272)
Offsets(pl) == {candidate_offset(pl, reversed, step) :
                    reversed \in BOOLEAN, step \in 0..(steps - 1)}

\* the start of the next window: the first one at a start of Firsts, a later
\* one at least SAMPLE_ANALYSIS_PERIOD after the last (line 76)
MaxStart == 45
MaxJitter == 1
NextStarts(Firsts, Jitters) ==
    {w \in 0..MaxStart :
        IF last_pass.run
        THEN \E j \in Jitters : w = last_pass.w + SAMPLE_ANALYSIS_PERIOD + j
        ELSE w \in Firsts}

\* a timestamp num / den, and their order
Time(num, den) == [none |-> FALSE, num |-> num, den |-> den]
Before(a, b) == a.num * b.den < b.num * a.den

\* the delegate is handed, under one label, samples whose timestamps rise
\* from first to last (GraphicalDebuggingDelegate, lines 15-22)
graph_intermediate_sample_data(g, label, first, last) ==
    [g EXCEPT ![label] =
        [last |-> last,
         increasing |-> @.increasing /\ (@.last.none \/ Before(@.last, first))]]

\* lines 173-181: for a stored slice, 100 points under each peak label, at
\* timestamp + period * i / 100 for i = 0 .. 99
debug_graph_samples == 100
RECURSIVE graph_stored(_, _, _)
graph_stored(g, stored, period) ==
    IF stored = <<>> THEN g
    ELSE LET first == Time(Head(stored), 1)
             last == Time(Head(stored) * debug_graph_samples * period.den
                              + period.num * (debug_graph_samples - 1),
                          debug_graph_samples * period.den)
             h == [l \in Labels |->
                      IF l \in PeakLabels
                      THEN graph_intermediate_sample_data(g, l, first, last)[l]
                      ELSE g[l]]
         IN  graph_stored(h, Tail(stored), period)

\* process_samples and calculate_scores (lines 78-79) on the window of len
\* resampled values that starts at w and whose last sample is at stop
PassEffects(w, len, stop, bin, average, offset, stat) ==
    LET r == process_samples(first_detected_respiratory_cycle_time,
                             respiratory_cycle_data, w, len, bin, average,
                             offset, stat)
        s == calculate_scores(r.period, r.first, r.data)
    IN  /\ detected_respiratory_period_length' = r.period
        /\ first_detected_respiratory_cycle_time' = r.first
        /\ respiratory_cycle_data' = r.data
        /\ vae_score' = s.vae_score
        /\ sqi' = s.sqi
        /\ alarm_sounded' = s.alarm_sounded
        /\ last_pass' = [run |-> TRUE, w |-> w, len |-> len, bin |-> bin,
                         average |-> average, offset |-> offset,
                         stat |-> stat, popped |-> r.popped]
        \* line 113, then lines 173-181 for each stored slice
        /\ graphed' = graph_stored(
                          graph_intermediate_sample_data(graphed, "Uniform",
                                                         Time(w, 1), stop),
                          r.stored, r.period)

\* one pass of data_callback's analysis (lines 78-80) on a window of evenly
\* spaced values, one tick apart
AnalysisPass(w, len, bin, average, offset, stat) ==
    /\ PassEffects(w, len, Time(w + len - 1, 1), bin, average, offset, stat)
    /\ UNCHANGED <<qvars, slvars, last_analysis_time,
                   graphical_debugging_delegate, callback, srcvars, thvars>>

DPInit ==
    /\ duration = SAMPLE_ANALYSIS_INTERVAL /\ queue = <<>> /\ filled = FALSE
    /\ ret = NoCall /\ prev = Brief(NoCall) /\ evicted = FALSE
    /\ SliceIdle
    /\ DPIdle
    /\ CBIdle
    /\ SrcIdle

\* passes over windows at and around the limits of the detection test
DetectLens == {30, 40}
DetectBins == {2, 10, 11}
DetectAverages == {0, 10, 11, 500}
DetectPass ==
    \E w \in NextStarts({0, 1}, {0}), len \in DetectLens, bin \in DetectBins,
       average \in DetectAverages :
        AnalysisPass(w, len, bin, average, 0, FlatStat)

DetectSpec == DPInit /\ [][DetectPass]_vars

\* passes over windows of 40 values whose dominant bin is 7 or 10 (periods
\* of 40/7 and 4 ticks), at every offset the variance search can settle on
\* and with the jitter of the schedule; an average of 0 is a window without
\* patient data
HistoryLen == 40
HistoryBins == {7, 10}
HistoryPass ==
    \E w \in NextStarts({0}, 0..MaxJitter), bin \in HistoryBins,
       average \in {0, 100} :
        \E offset \in Offsets(Round(HistoryLen, bin)) :
            AnalysisPass(w, HistoryLen, bin, average, offset, FlatStat)

HistorySpec == DPInit /\ [][HistoryPass]_vars

\* passes over windows of 40 values whose dominant bin is 3 or 5, sliced
\* from offset 0, whose slices are steady, rise a little, rise a lot, or
\* rise in the 95th percentile only; an average of 0 is a window without
\* patient data
ScoreLen == 40
ScoreBins == {3, 5}
ScoreStats == {FlatStat, Stat(100, 102, 146, 150), Stat(120, 130, 170, 170),
               Stat(90, 100, 146, 146)}
ScorePass ==
    \E w \in NextStarts({1}, {0}), bin \in ScoreBins, stat \in ScoreStats,
       average \in {0, 100} :
        AnalysisPass(w, ScoreLen, bin, average, 0, stat)

ScoreSpec == DPInit /\ [][ScorePass]_vars

(***************************************************************************)
(* Part 2c: DataProcessor.data_callback (lines 71-82) on a stream of       *)
(* samples with strictly increasing timestamps, with and without a         *)
(* debugging delegate.                                                     *)
(***************************************************************************)
\* line 77: not self.last_analysis_time or
\*          self.last_analysis_time + SAMPLE_ANALYSIS_PERIOD < sample.t
analysis_due_le(last, t) ==
    ~Truthy(last) \/ last.n + SAMPLE_ANALYSIS_PERIOD <= t
analysis_due(last, t) ==
    ~Truthy(last) \/ last.n + SAMPLE_ANALYSIS_PERIOD < t

\* data_callback (lines 71-82): what it does to the processor
data_callback(sample, bin, average, offset, stat) ==
    LET p == push(queue, filled, duration, sample, FALSE)
        q == p.queue
        Called(raised, calls) ==
            callback' = [op |-> "data_callback", t |-> sample.t,
                         raised |-> raised, calls |-> calls]
    IN  /\ queue' = q
        /\ filled' = p.filled
        /\ UNCHANGED <<duration, ret, prev, evicted, slvars,
                       graphical_debugging_delegate>>
        /\ IF p.raised # "none"
           THEN \* line 72: push raised
                /\ Called(p.raised, <<>>)
                /\ UNCHANGED <<dpvars, last_analysis_time, graphed>>
           ELSE IF ~(p.filled /\ analysis_due(last_analysis_time, sample.t))
           THEN /\ Called("none", <<>>)
                /\ UNCHANGED <<dpvars, last_analysis_time, graphed>>
           ELSE IF Len(q) = 1
           THEN \* line 112: copy_samples raises on a one-sample queue
                /\ Called("IndexError", <<"process_samples">>)
                /\ UNCHANGED <<dpvars, last_analysis_time, graphed>>
           ELSE IF graphical_debugging_delegate = "None"
           THEN \* line 113: None has no graph_intermediate_sample_data
                /\ Called("AttributeError", <<"process_samples">>)
                /\ UNCHANGED <<dpvars, last_analysis_time, graphed>>
           ELSE LET num == num_samples(q, 1)
                IN  /\ PassEffects(q[1].t, num,
                                   Time(resampled_time(q, num, num - 1), num),
                                   bin, average, offset, stat)
                    /\ Called("none", <<"process_samples", "calculate_scores">>)
                    \* line 82
                    /\ last_analysis_time' = Number(sample.t)

\* one call of data_callback on a processor of its own
DataCallback(sample, bin, average, offset, stat) ==
    /\ data_callback(sample, bin, average, offset, stat)
    /\ UNCHANGED <<srcvars, thvars>>

\* impedance.py lines 79-89: the processor's delegate is the GUI, or None
\* with --no-gui
CallbackInit ==
    /\ duration = SAMPLE_ANALYSIS_INTERVAL /\ queue = <<>> /\ filled = FALSE
    /\ ret = NoCall /\ prev = Brief(NoCall) /\ evicted = FALSE
    /\ SliceIdle
    /\ DPIdle
    /\ last_analysis_time = None
    /\ graphical_debugging_delegate \in {"gui", "None"}
    /\ graphed = NothingGraphed
    /\ callback = NoCallback
    /\ SrcIdle

\* the stream: a first timestamp, then steps of 5 or 10 seconds, up to
\* MaxCallbackTime; a window either carries breathing at bin 7 or no
\* patient data
MaxCallbackTime == 40
FirstTimes == {-50, -45}
TimeSteps == {10, 20}
NextTimes ==
    {t \in (-50)..MaxCallbackTime :
        IF callback.op = "init" THEN t \in FirstTimes
        ELSE \E d \in TimeSteps : t = callback.t + d}
Receive ==
    \E t \in NextTimes, average \in {0, 100} :
        DataCallback(TimeValueSample(t, 100), 7, average, 0, FlatStat)

CallbackSpec == CallbackInit /\ [][Receive]_vars

\* the producer does not stall: a further sample keeps arriving
CallbackFairSpec == CallbackSpec /\ WF_vars(Receive)

(***************************************************************************)
(* Part 3: impedance.py --replay: opening the recording and constructing   *)
(* the FileDataSource (impedance.py lines 45-55, src/FileDataSource.py,    *)
(* src/DataSource.py).                                                     *)
(***************************************************************************)
\* DataSource(ABC), lines 10 and 15: its abstract methods
DataSourceAbstractMethods == {"expected_sampling_period", "start_data"}
\* what class FileDataSource(DataSource) defines (FileDataSource.py)
FileDataSourceMethods ==
    {"__init__", "start_data", "_iterator_thread",
     "append_time_value_pair_to_file"}
\* the abstract methods a FileDataSource is left with; ABCMeta refuses to
\* instantiate a class that has any
FileDataSourceAbstractMethods ==
    DataSourceAbstractMethods \ FileDataSourceMethods

\* the end-of-stream sentinel, callback_function(None) (line 52)
NullSample == [none |-> TRUE, t |-> 0, v |-> 0]
FileSample(t, v) == [none |-> FALSE, t |-> t, v |-> v]

\* the recordings: up to MaxRows rows of a time and a value
MaxRows == 2
Recordings ==
    UNION {[1..n -> {FileSample(t, v) : t \in Times, v \in Values}] :
               n \in 0..MaxRows}

ReplayInit ==
    /\ QueueIdle /\ SliceIdle /\ DPIdle /\ CBIdle
    /\ replay_file \in {[status |-> "missing", rows |-> <<>>],
                        [status |-> "unreadable", rows |-> <<>>]}
                       \cup {[status |-> "readable", rows |-> r] :
                                 r \in Recordings}
    /\ main = "main"
    /\ source = NoSource
    /\ delivered = <<>>
    /\ ThreadIdle

\* impedance.py lines 47-48 and 50-55: open(args.replay, "r")
OpenReplayFile ==
    /\ main = "main"
    /\ main' = CASE replay_file.status = "missing" -> "exit(1)"
                 [] replay_file.status = "unreadable" -> "exit(1)"
                 [] OTHER -> "opened"
    /\ UNCHANGED <<qvars, slvars, dpvars, cbvars, replay_file, source, delivered,
                   thvars>>

\* impedance.py line 49: source = FileDataSource(file); the TypeError of an
\* abstract class is not among the exceptions lines 50-55 catch
ConstructFileDataSource ==
    /\ main = "opened"
    /\ IF FileDataSourceAbstractMethods # {}
       THEN /\ main' = "TypeError"
            /\ UNCHANGED source
       ELSE \* FileDataSource.__init__ (lines 13-27)
            /\ main' = "constructed"
            /\ source' = [class |-> "FileDataSource", stopped |-> TRUE,
                          samples |-> replay_file.rows,
                          callback_function |-> "None"]
    /\ UNCHANGED <<qvars, slvars, dpvars, cbvars, replay_file, delivered, thvars>>

ReplayNext == OpenReplayFile \/ ConstructFileDataSource

ReplaySpec == ReplayInit /\ [][ReplayNext]_vars

\* the main thread runs on
ReplayFairSpec == ReplaySpec /\ WF_vars(ReplayNext)

(***************************************************************************)
(* Part 4: the threads of impedance.py (lines 91-105): the data source's   *)
(* background thread hands each sample to callback_function, which is the  *)
(* emit of the signal data_event.delivered; the main thread runs the Qt    *)
(* event loop, which calls the slot data_event_callback, and after the     *)
(* loop has ended calls source.stop_data().  Every step is one read or one *)
(* write of a shared attribute, or one call.                               *)
(* The background thread is the polling thread of an                       *)
(* AnalogDiscoveryDataSource or the iterator thread of a FileDataSource;   *)
(* the latter runs only in a subclass that defines                         *)
(* expected_sampling_period, as the class itself cannot be instantiated    *)
(* (ConstructFileDataSource).                                              *)
(***************************************************************************)
\* the samples of the modelled stream: the k-th one SAMPLE_ANALYSIS_INTERVAL
\* after the one before, a valid impedance of 100 ohms
MaxSamples == 3
StreamSample(k) == FileSample(k * SAMPLE_ANALYSIS_INTERVAL, 100)
Streams == {[k \in 1..n |-> StreamSample(k)] : n \in 0..MaxSamples}

\* DataSource.start_data (lines 31-32) and the Thread(...).start() of the
\* subclass: FileDataSource.py line 35, AnalogDiscoveryDataSource.py line 98
StartedSources ==
    {[class |-> "AnalogDiscoveryDataSource", stopped |-> FALSE,
      samples |-> <<>>, callback_function |-> "emit"]}
    \cup {[class |-> "FileDataSource", stopped |-> FALSE,
           samples |-> r, callback_function |-> "emit"] : r \in Streams}

\* impedance.py after line 101, entering app.exec() (line 104)
ThreadInit ==
    /\ duration = SAMPLE_ANALYSIS_INTERVAL /\ queue = <<>> /\ filled = FALSE
    /\ ret = NoCall /\ prev = Brief(NoCall) /\ evicted = FALSE
    /\ SliceIdle
    /\ DPIdle
    /\ last_analysis_time = None
    /\ graphical_debugging_delegate \in {"gui", "None"}
    /\ graphed = NothingGraphed
    /\ callback = NoCallback
    /\ replay_file = NoFile
    /\ main = "exec"
    /\ source \in StartedSources
    /\ delivered = <<>>
    /\ thread = [pc |-> "loop", i |-> 0, loaded |-> "None", raised |-> "none"]
    /\ posted = <<>>
    /\ running = <<>>
    /\ handled = <<>>

MainUnchanged == UNCHANGED <<qvars, slvars, dpvars, cbvars, replay_file, main>>

\* Signal.emit with the default Qt.AutoConnection (impedance.py lines 97-99,
\* DataSource.py lines 29-30): queued onto the receiver's thread when the
\* emitting thread is another one, a direct call otherwise.  The receiver
\* was connected on the main thread.
connection_direct(emitter) == "direct"
connection_type(emitter) == IF emitter = "main" THEN "direct" ELSE "queued"

\* the sample the background thread is at
current_sample ==
    IF source.class = "FileDataSource" THEN source.samples[thread.i]
    ELSE StreamSample(thread.i)

\* FileDataSource._iterator_thread line 38: the next sample, if any, and the
\* sleep of lines 40-43
IteratorNext ==
    /\ source.class = "FileDataSource" /\ thread.pc = "loop"
    /\ thread' = IF thread.i < Len(source.samples)
                 THEN [thread EXCEPT !.i = thread.i + 1, !.pc = "check"]
                 ELSE [thread EXCEPT !.pc = "end_check"]
    /\ MainUnchanged
    /\ UNCHANGED <<source, delivered, posted, running, handled>>

\* line 45: if self.stopped: break
IteratorCheck ==
    /\ thread.pc = "check"
    /\ thread' = [thread EXCEPT !.pc = IF source.stopped THEN "end_check"
                                       ELSE "load"]
    /\ MainUnchanged
    /\ UNCHANGED <<source, delivered, posted, running, handled>>

\* AnalogDiscoveryDataSource._polling_thread line 169, while not
\* self.stopped, then lines 170-203: the next sample_number, for which the
\* hardware has a valid measurement or not
Poll ==
    /\ source.class = "AnalogDiscoveryDataSource" /\ thread.pc = "loop"
    /\ IF source.stopped
       THEN thread' = [thread EXCEPT !.pc = "done"]
       ELSE /\ thread.i < MaxSamples
            /\ \E ready \in BOOLEAN :
                   thread' = [thread EXCEPT !.i = thread.i + 1,
                                            !.pc = IF ready THEN "load" ELSE "loop"]
    /\ MainUnchanged
    /\ UNCHANGED <<source, delivered, posted, running, handled>>

\* self.callback_function, the property read of FileDataSource.py lines 49
\* and 53 and AnalogDiscoveryDataSource.py line 204
LoadCallback ==
    /\ thread.pc \in {"load", "end_load"}
    /\ thread' = [thread EXCEPT !.loaded = source.callback_function,
                                !.pc = IF thread.pc = "load" THEN "call"
                                       ELSE "end_call"]
    /\ MainUnchanged
    /\ UNCHANGED <<source, delivered, posted, running, handled>>

\* the call of what was read, with the sample or the sentinel None: calling
\* None raises TypeError; the emit queues the slot call on the main thread
\* or, were the connection direct, runs the slot on this thread, where its
\* assertion of line 22 fails
CallCallback ==
    /\ thread.pc \in {"call", "end_call"}
    /\ LET sample == IF thread.pc = "call" THEN current_sample ELSE NullSample
       IN  IF thread.loaded = "None"
           THEN /\ thread' = [thread EXCEPT !.pc = "dead", !.raised = "TypeError"]
                /\ UNCHANGED <<delivered, posted>>
           ELSE /\ delivered' = Append(delivered, sample)
                /\ IF connection_type("background") = "queued"
                   THEN /\ posted' = Append(posted, sample)
                        /\ thread' = [thread EXCEPT
                                          !.pc = IF thread.pc = "call" THEN "loop"
                                                 ELSE "stop"]
                   ELSE /\ thread' = [thread EXCEPT !.pc = "dead",
                                                    !.raised = "AssertionError"]
                        /\ UNCHANGED posted
    /\ MainUnchanged
    /\ UNCHANGED <<source, running, handled>>

\* FileDataSource._iterator_thread line 52: if not self.stopped
IteratorEndCheck ==
    /\ thread.pc = "end_check"
    /\ thread' = [thread EXCEPT !.pc = IF source.stopped THEN "done"
                                       ELSE "end_load"]
    /\ MainUnchanged
    /\ UNCHANGED <<source, delivered, posted, running, handled>>

\* line 54: self.stop_data()
IteratorStop ==
    /\ thread.pc = "stop"
    /\ source' = [source EXCEPT !.stopped = TRUE, !.callback_function = "None"]
    /\ thread' = [thread EXCEPT !.pc = "done"]
    /\ MainUnchanged
    /\ UNCHANGED <<delivered, posted, running, handled>>

\* the event loop calls the slot for the oldest queued event; lines 22-24
\* and 28-31 of data_event_callback: a sample goes on to data_callback, the
\* sentinel ends the event loop when there is no GUI
SlotEnter ==
    /\ main = "exec" /\ posted # <<>>
    /\ posted' = Tail(posted)
    /\ IF ~Head(posted).none
       THEN /\ main' = "slot"
            /\ running' = Append(running, "main")
            /\ handled' = Append(handled, [thread |-> "main", sample |-> Head(posted)])
       ELSE /\ main' = IF graphical_debugging_delegate = "None" THEN "exited"
                       ELSE "exec"
            /\ UNCHANGED <<running, handled>>
    /\ UNCHANGED <<qvars, slvars, dpvars, cbvars, replay_file, source,
                   delivered, thread>>

\* line 25: data_processor.data_callback(sample), and the slot returns to
\* the event loop
SlotReturn ==
    /\ main = "slot"
    /\ LET sample == handled[Len(handled)].sample
       IN  \E average \in {0, 100} :
               data_callback(TimeValueSample(sample.t, sample.v), 7, average,
                             0, FlatStat)
    /\ main' = "exec"
    /\ running' = <<>>
    /\ UNCHANGED <<replay_file, source, delivered, thread, posted, handled>>

\* line 104: app.exec() returns when the GUI is closed
CloseGUI ==
    /\ main = "exec" /\ graphical_debugging_delegate = "gui"
    /\ main' = "exited"
    /\ UNCHANGED <<qvars, slvars, dpvars, cbvars, replay_file, source,
                   delivered, thvars>>

\* line 105, source.stop_data(): DataSource.py line 35, then line 36
StopDataStopped ==
    /\ main = "exited"
    /\ source' = [source EXCEPT !.stopped = TRUE]
    /\ main' = "stop_data"
    /\ UNCHANGED <<qvars, slvars, dpvars, cbvars, replay_file, delivered, thvars>>
StopDataCallback ==
    /\ main = "stop_data"
    /\ source' = [source EXCEPT !.callback_function = "None"]
    /\ main' = "stopped"
    /\ UNCHANGED <<qvars, slvars, dpvars, cbvars, replay_file, delivered, thvars>>

ThreadNext ==
    \/ IteratorNext \/ IteratorCheck \/ Poll \/ LoadCallback \/ CallCallback
    \/ IteratorEndCheck \/ IteratorStop
    \/ SlotEnter \/ SlotReturn \/ CloseGUI \/ StopDataStopped
    \/ StopDataCallback

ThreadSpec == ThreadInit /\ [][ThreadNext]_vars

(* ------------------------------ claims --------------------------------- *)
Span(q) == q[Len(q)].t - q[1].t
Newest(q) == q[Len(q)].t

\* C1: with duration >= 0, after every push that returns normally (in any
\* sequence of push and clear calls) newest.t - oldest.t <= duration.
C1_SpanWithinDuration ==
    (duration >= 0 /\ Len(queue) > 0) => Span(queue) <= duration
C1_Witness ==
    /\ ret.op = "push" /\ ret.raised = "none" /\ evicted
    /\ duration > 0 /\ Len(queue) >= 2 /\ Span(queue) = duration

\* C2: in every reachable state the stored samples are strictly increasing
\* in timestamp from oldest to newest.
C2_StrictlyIncreasing ==
    \A i \in 1..(Len(queue) - 1) : queue[i].t < queue[i + 1].t
C2_Witness ==
    /\ Len(queue) >= 3 /\ filled
    /\ ret.op = "push" /\ ret.appended /\ ret.t = Newest(queue)

\* C3: push without ignore_out_of_order_samples of a sample whose timestamp
\* is <= the newest stored one raises, and leaves the stored samples and
\* the filled flag as they were.
C3_OutOfOrderPushFails ==
    [][(/\ ret'.op = "push" /\ ~ret'.ignore
        /\ Len(queue) > 0 /\ ret'.t <= Newest(queue))
       => (/\ ret'.raised = "AssertionError"
           /\ queue' = queue /\ filled' = filled)]_vars
C3_Witness ==
    /\ ret.op = "push" /\ ~ret.ignore /\ ret.raised = "AssertionError"
    /\ filled /\ Len(queue) >= 2 /\ ret.t = Newest(queue)

\* C4: push with ignore_out_of_order_samples of a sample whose timestamp is
\* <= the newest stored one returns without error, stores nothing, evicts
\* nothing and leaves the stored samples and the filled flag unchanged.
C4_OutOfOrderPushIgnored ==
    [][(/\ ret'.op = "push" /\ ret'.ignore
        /\ Len(queue) > 0 /\ ret'.t <= Newest(queue))
       => (/\ ret'.raised = "none" /\ ~ret'.appended
           /\ queue' = queue /\ filled' = filled)]_vars
C4_Witness ==
    /\ ret.op = "push" /\ ret.ignore /\ ret.raised = "none" /\ ~ret.appended
    /\ filled /\ Len(queue) >= 2 /\ ret.t < Newest(queue)

\* C5: filled is true iff a sample has been evicted by push since
\* construction or the last clear; once true it stays true until clear.
C5_FilledIffEvicted ==
    /\ [](filled <=> evicted)
    /\ [][(filled /\ ret'.op # "clear") => filled']_vars
C5_Witness ==
    /\ filled /\ evicted
    /\ ret.op = "copy_samples" /\ Len(queue) >= 2

\* C6: after clear the queue holds no samples and filled is false; the next
\* push after clear is accepted for any timestamp.
C6_ClearResets ==
    /\ [](ret.op = "clear" => (queue = <<>> /\ ~filled))
    /\ [][(ret.op = "clear" /\ ret'.op = "push")
          => (/\ ret'.raised = "none" /\ ret'.appended
              /\ (duration >= 0
                  => queue' = <<TimeValueSample(ret'.t, ret'.v)>>))]_vars
\* a push accepted right after a clear of a filled-era queue whose newest
\* timestamp was greater than the pushed one
C6_Witness ==
    /\ prev.clear /\ prev.appended
    /\ ret.op = "push" /\ ret.appended /\ ret.raised = "none"
    /\ ret.t < prev.t /\ Len(queue) = 1 /\ ~filled

\* C7: copy_samples(desired_period = p), p > 0, on a non-empty queue returns
\* exactly round((newest.t - oldest.t) / p) + 1 samples for every stored
\* sequence, and leaves the stored samples unchanged.
C7_ReturnsNumSamples ==
    [][(/\ ret'.op = "copy_samples" /\ ~ret'.p.none /\ ret'.p.n > 0
        /\ Len(queue) > 0)
       => (/\ ret'.raised = "none"
           /\ Len(ret'.samples) = num_samples(queue, ret'.p.n)
           /\ queue' = queue)]_vars

\* C8: the timestamps copy_samples(desired_period = p), p > 0, returns start
\* at the oldest stored timestamp, end at the newest, and are evenly spaced
\* at p, whatever the spacing of the first two stored samples or the count.
\* Stated for the non-degenerate returns, of two samples or more (a single
\* returned sample cannot both start at the oldest and end at the newest).
C8_EvenlySpacedOverSpan ==
    (/\ ret.op = "copy_samples" /\ ~ret.p.none /\ ret.p.n > 0
     /\ ret.raised = "none" /\ Len(ret.samples) >= 2)
    => LET n == Len(ret.samples)
       IN  /\ ret.samples[1].tn = queue[1].t * ret.den
           /\ ret.samples[n].tn = Newest(queue) * ret.den
           /\ \A i \in 1..(n - 1) :
                ret.samples[i + 1].tn - ret.samples[i].tn = ret.p.n * ret.den

\* C9: copy_samples with desired_period <= 0, zero as well as negative,
\* fails with an error and never returns a sample list.
C9_NonPositivePeriodFails ==
    (ret.op = "copy_samples" /\ ~ret.p.none /\ ret.p.n <= 0)
    => ret.raised # "none"

\* C10: a queue with duration <= 0 fails at construction: none ever accepts
\* a push, evicts or reports filled.
C10_NonPositiveDurationRejected ==
    duration <= 0
    => (/\ ~(ret.op = "push" /\ ret.appended)
        /\ ~evicted /\ ~filled)

\* C14: slice_values_into_periods, and hence
\* find_period_slices_with_greatest_average_variance, returns only slices
\* of exactly period_length elements lying wholly inside the array, with
\* start indexes strictly increasing and at least period_length apart.
C14_CompleteDisjointSlices ==
    sliced.op # "none" =>
        /\ Len(sliced.slices) = Len(sliced.start_indexes)
        /\ \A j \in 1..Len(sliced.slices) :
            /\ Len(sliced.slices[j]) = period_length
            /\ sliced.start_indexes[j] >= 0
            /\ sliced.start_indexes[j] + period_length <= Len(values)
            /\ sliced.slices[j] = SubSeq(values, sliced.start_indexes[j] + 1,
                                         sliced.start_indexes[j] + period_length)
        /\ \A j \in 1..(Len(sliced.start_indexes) - 1) :
            sliced.start_indexes[j + 1] >= sliced.start_indexes[j] + period_length
\* an offset that pushes the last period past the end of the array, so that
\* the incomplete slice is dropped while two complete ones are returned
C14_Witness ==
    /\ sliced.op = "slice_values_into_periods" /\ sliced.offset > 0
    /\ Len(sliced.slices) >= 2
    /\ Len(sliced.slices) < Len(values) \div period_length

(* --------------------- claims on the analysis pass --------------------- *)
\* a pass has just run: every pass starts its window later than the last
PassStep == last_pass' # last_pass

\* the window p has its dominant frequency within 8/60 .. 30/60 Hz, both
\* bounds included
InRespiratoryBand(p) ==
    /\ 8 * p.len <= 60 * p.bin * sampling_rate
    /\ 60 * p.bin * sampling_rate <= 30 * p.len

\* the window p passes the detection test of the code
Detects(p) == InRespiratoryBand(p) /\ 10 < p.average /\ p.average < 500

Tracking == ~detected_respiratory_period_length.none

\* C11 as stated: a pass takes the detected branch exactly when the dominant
\* frequency is within 8/60..30/60 Hz and the window mean is within 10..500,
\* the bounds of both ranges included.
C11_Original ==
    last_pass.run =>
        (Tracking <=> /\ InRespiratoryBand(last_pass)
                      /\ 10 <= last_pass.average /\ last_pass.average <= 500)

\* C11 amended: a pass takes the detected branch exactly when the dominant
\* frequency is within 8/60..30/60 Hz, bounds included, and the window mean
\* is strictly between 10 and 500, bounds excluded.
C11_DetectedIffInBandAndMeanInside ==
    last_pass.run => (Tracking <=> Detects(last_pass))

\* a pass detected a cycle whose frequency is exactly the upper limit
C11_Witness ==
    /\ last_pass.run /\ Tracking
    /\ 60 * last_pass.bin * sampling_rate = 30 * last_pass.len

\* C12: a pass whose detection test fails resets both
\* detected_respiratory_period_length and
\* first_detected_respiratory_cycle_time to None and leaves
\* respiratory_cycle_data as it was.
C12_FailedDetectionResets ==
    [][(PassStep /\ ~Detects(last_pass'))
         => /\ detected_respiratory_period_length'.none
            /\ first_detected_respiratory_cycle_time' = None
            /\ respiratory_cycle_data' = respiratory_cycle_data]_vars

\* a failed pass after a detecting one: the history is kept, tracking is lost
C12_Witness ==
    /\ last_pass.run /\ ~Detects(last_pass)
    /\ Len(respiratory_cycle_data) > 0
    /\ ~Tracking /\ first_detected_respiratory_cycle_time = None

\* C13: over consecutive detecting passes first_detected_respiratory_cycle_time
\* is set by the first of them to the start of its window and keeps that
\* value afterwards, whatever the start, 0 included.
C13_FirstDetectionTimeKept ==
    [][(PassStep /\ Detects(last_pass'))
         => first_detected_respiratory_cycle_time' =
                IF Tracking THEN first_detected_respiratory_cycle_time
                ELSE Number(last_pass'.w)]_vars

(* ------------------------ claims on the history ------------------------ *)
\* the start timestamps of the complete slices of the window p: the slices
\* of round(len / bin) samples from p.offset on
Candidates(p) ==
    LET pl == Round(p.len, p.bin)
    IN  {p.w + p.offset + i * pl : i \in {k \in 0..((p.len \div pl) - 1) :
                                            p.offset + (k + 1) * pl <= p.len}}

\* entry e is at least half its own cycle_duration away from timestamp t
HalfCycleApart(e, t) ==
    2 * e.cycle_duration.den * Abs(e.timestamp - t) >= e.cycle_duration.num

\* C15, the entries of a history: an entry recorded after another one starts
\* at least half the earlier one's cycle_duration away from it.
C15_EntriesHalfCycleApart ==
    \A i, j \in 1..Len(respiratory_cycle_data) :
        i < j => HalfCycleApart(respiratory_cycle_data[i],
                                respiratory_cycle_data[j].timestamp)

\* C15, one pass that trims nothing: the stored entries stay as they are,
\* and a candidate start is discarded exactly when an entry stored before
\* it is less than half that entry's cycle_duration away (a gap of exactly
\* half appends), else appended.
C15_PassDeduplicates ==
    (PassStep /\ Detects(last_pass') /\ last_pass'.popped = 0) =>
        LET old == respiratory_cycle_data
            new == respiratory_cycle_data'
            added == (Len(old) + 1)..Len(new)
        IN  /\ Len(new) >= Len(old)
            /\ SubSeq(new, 1, Len(old)) = old
            /\ \A j \in added : new[j].timestamp \in Candidates(last_pass')
            /\ \A j, k \in added : j < k => new[j].timestamp < new[k].timestamp
            /\ \A c \in Candidates(last_pass') :
                   (\E j \in added : new[j].timestamp = c)
                   <=> \A i \in 1..Len(new) :
                           (i <= Len(old) \/ new[i].timestamp < c)
                               => HalfCycleApart(new[i], c)

\* C15: a candidate cycle is discarded exactly when some stored entry e has
\* |e.timestamp - t| < e.cycle_duration / 2, and appended otherwise, so any
\* two entries a, b with a recorded first have
\* |a.timestamp - b.timestamp| >= a.cycle_duration / 2.
C15_Deduplication ==
    [](C15_EntriesHalfCycleApart) /\ [][C15_PassDeduplicates]_vars

\* a pass discarded one candidate and stored another exactly half a
\* cycle_duration after an older entry
C15_Witness ==
    /\ last_pass.run /\ Detects(last_pass) /\ last_pass.popped = 0
    /\ \E c \in Candidates(last_pass) :
           \A i \in 1..Len(respiratory_cycle_data) :
               respiratory_cycle_data[i].timestamp = c
                   => respiratory_cycle_data[i].cycle_duration.den # last_pass.bin
    /\ \E i, j \in 1..Len(respiratory_cycle_data) :
           /\ i < j
           /\ respiratory_cycle_data[j].timestamp \in Candidates(last_pass)
           /\ 2 * respiratory_cycle_data[i].cycle_duration.den
                * Abs(respiratory_cycle_data[i].timestamp
                      - respiratory_cycle_data[j].timestamp)
              = respiratory_cycle_data[i].cycle_duration.num

\* C16, one pass: what is left of the old history is its newest entries in
\* their order, followed by the entries the pass stored; entries are
\* dropped only from a full history.
C16_PassTrimsOldest ==
    PassStep =>
        LET old == respiratory_cycle_data
            new == respiratory_cycle_data'
        IN  \E d \in 0..Len(old) :
                /\ Len(new) >= Len(old) - d
                /\ SubSeq(new, 1, Len(old) - d) = SubSeq(old, d + 1, Len(old))
                /\ \A j \in (Len(old) - d + 1)..Len(new) :
                       new[j].timestamp \in Candidates(last_pass')
                /\ d > 0 => Len(new) = 15

\* C16: the history holds at most 15 entries after every pass, and trimming
\* removes the oldest-inserted entries and keeps the others in insertion
\* order.
C16_HistoryBounded ==
    [](Len(respiratory_cycle_data) <= 15) /\ [][C16_PassTrimsOldest]_vars

\* a pass stored entries into a history that it had to trim
C16_Witness ==
    /\ last_pass.run /\ last_pass.popped > 1
    /\ Len(respiratory_cycle_data) = 15

\* C17: in every reachable state the start timestamps of the history are
\* strictly increasing in insertion order.
C17_HistoryTimeOrdered ==
    \A i \in 1..(Len(respiratory_cycle_data) - 1) :
        respiratory_cycle_data[i].timestamp
            < respiratory_cycle_data[i + 1].timestamp

(* ------------------------- claims on the scores ------------------------ *)
\* C18: in every reachable state the vae_score and the sqi that
\* calculate_scores computed are both within [0, 100].
C18_ScoresWithinRange ==
    /\ 0 <= vae_score /\ vae_score <= 100
    /\ 0 <= sqi /\ sqi <= 100

\* the entries the last one is compared with: the up to 9 before it
Baseline ==
    LET n == Len(respiratory_cycle_data)
        lo == IF n > 10 THEN n - 9 ELSE 1
    IN  [i \in 1..(n - lo) |-> respiratory_cycle_data[lo + i - 1]]

\* the last entry's 5th and 95th percentile rise above the baseline mean
MinPercentileRises ==
    Len(Baseline) * respiratory_cycle_data[Len(respiratory_cycle_data)].min_percentile
        > Sum([i \in 1..Len(Baseline) |-> Baseline[i].min_percentile])
MaxPercentileRises ==
    Len(Baseline) * respiratory_cycle_data[Len(respiratory_cycle_data)].max_percentile
        > Sum([i \in 1..Len(Baseline) |-> Baseline[i].max_percentile])

\* C19: the vae_score is 0 whenever the history has fewer than 3 entries or
\* the current entry's 5th or 95th percentile does not rise strictly above
\* the mean of the entries before it.
C19_NoPairedRiseNoScore ==
    (\/ Len(respiratory_cycle_data) < 3
     \/ ~MinPercentileRises
     \/ ~MaxPercentileRises) => vae_score = 0

\* a pass scored a history of 3 or more entries whose last entry rises in
\* the 95th percentile only
C19_Witness ==
    /\ last_pass.run /\ Len(respiratory_cycle_data) >= 3
    /\ MaxPercentileRises /\ ~MinPercentileRises
    /\ vae_score = 0

\* C20: the sqi is exactly 0 whenever no respiratory cycle is tracked or the
\* history is empty.
C20_NoTrackingNoQuality ==
    (~Tracking \/ Len(respiratory_cycle_data) = 0) => sqi = 0

\* a failed pass scored a history left by earlier detecting passes
C20_Witness ==
    /\ last_pass.run /\ ~Detects(last_pass) /\ ~Tracking
    /\ Len(respiratory_cycle_data) >= 3
    /\ sqi = 0

\* C21: the alarm is raised (sound_alarm is invoked) on a pass whose SQI and
\* VAE score both cross their thresholds, here for any thresholds up to an
\* SQI of 50 and a VAE score of 100, so a state with the alarm raised is
\* reachable.
C21_AlarmOnPairedCrossing ==
    (last_pass.run /\ sqi >= 50 /\ vae_score >= 100) => alarm_sounded

(* ----------------------- claims on data_callback ----------------------- *)
\* a data_callback call has just returned or raised
CallbackStep == callback' # callback

FullPass == <<"process_samples", "calculate_scores">>

\* C22: with a delegate attached, data_callback runs process_samples and
\* then calculate_scores, once each, exactly when after the push the buffer
\* is filled and either no pass has run before or at least
\* SAMPLE_ANALYSIS_PERIOD (10 s, 20 ticks) has elapsed since
\* last_analysis_time, exactly 10 s included; no pass runs while the buffer
\* is not filled, and after a pass last_analysis_time is the sample's
\* timestamp.
C22_PassIffFilledAndPeriodElapsed ==
    [][(CallbackStep /\ graphical_debugging_delegate = "gui") =>
          /\ callback'.calls \in {<<>>, FullPass}
          /\ callback'.calls = FullPass
               <=> /\ filled'
                   /\ \/ ~last_pass.run
                      \/ callback'.t - last_analysis_time.n >= 20
          /\ callback'.calls = FullPass
               => last_analysis_time' = Number(callback'.t)]_vars

\* C23: without a delegate every triggered pass still completes without
\* error, runs both steps and sets last_analysis_time to the triggering
\* sample's timestamp.
C23_NoSinkPassCompletes ==
    (graphical_debugging_delegate = "None" /\ callback.calls # <<>>) =>
        /\ callback.raised = "none"
        /\ callback.calls = FullPass
        /\ last_analysis_time = Number(callback.t)

\* C24: under every label the timestamps handed to the delegate, over all
\* calls, are unique and strictly increasing.
C24_GraphedTimestampsIncrease ==
    \A l \in Labels : graphed[l].increasing

(* ------------------------ claims on the replay ------------------------- *)
\* C25: a FileDataSource that is not stopped hands every sample of the file
\* to the callback in file order and then exactly one null sentinel, and is
\* stopped after it.
C25_ReplayDeliversFile ==
    (main = "opened")
        ~> /\ delivered = replay_file.rows \o <<NullSample>>
           /\ source.class = "FileDataSource" /\ source.stopped

(* ----------------------- claims on copy_samples ------------------------ *)
\* the stored times lie exactly on the grid of period p from the first one
OnGrid(q, p) == \A i \in 1..Len(q) : q[i].t = q[1].t + (i - 1) * p

\* C26: copy_samples(desired_period = p) relabels the timestamps without
\* calling the FFT resampling whenever the stored sample count is
\* num_samples and the timestamps are within the jitter tolerance; here for
\* the plainest such queue, whose samples lie exactly on the grid of p.
C26_FastPathWithoutResampling ==
    (/\ ret.op = "copy_samples" /\ Truthy(ret.p) /\ ret.p.n > 0
     /\ Len(queue) > 1 /\ OnGrid(queue, ret.p.n))
        => (ret.raised = "none" /\ ~ret.resampled)

UpperHalfOffsets == [i \in 1..steps |-> Round(period_length * (3 + i), 8)]
LowerHalfOffsets == [i \in 1..steps |-> Round(period_length * (i - 1), 8)]
SearchDone == sliced.op = "find_period_slices"
\* the means of the two halves of the window compared; a half without
\* elements has no mean and compares false
FirstHalfMeanLower ==
    /\ Len(second_half(values)) > 0
    /\ Sum(first_half(values)) * Len(second_half(values))
           < Sum(second_half(values)) * Len(first_half(values))
SecondHalfMeanLower ==
    /\ Len(second_half(values)) > 0
    /\ Sum(second_half(values)) * Len(first_half(values))
           < Sum(first_half(values)) * Len(second_half(values))

\* C28 as stated: the search runs over the upper half of the period exactly
\* when the mean of the second half of the window is lower than the mean
\* of the first half, and over the lower half otherwise.
C28_Original ==
    SearchDone =>
        /\ sliced.searched = UpperHalfOffsets <=> SecondHalfMeanLower
        /\ sliced.searched = LowerHalfOffsets <=> ~SecondHalfMeanLower

\* C28 amended: the search runs over the upper half of the period exactly
\* when the mean of the first half of the window is lower than the mean of
\* the second half, and over the lower half otherwise, which includes
\* equal means and a window too short to have two halves.
C28_UpperHalfIffFirstHalfLower ==
    SearchDone =>
        /\ sliced.searched = UpperHalfOffsets <=> FirstHalfMeanLower
        /\ sliced.searched = LowerHalfOffsets <=> ~FirstHalfMeanLower

C28_Witness ==
    /\ SearchDone /\ FirstHalfMeanLower
    /\ sliced.searched = UpperHalfOffsets
    /\ Len(sliced.slices) > 0

(* ------------------------ claims on the baseline ----------------------- *)
\* the 10 entries immediately preceding the most recent one, or all the
\* preceding ones when there are fewer
TenPreceding ==
    LET n == Len(respiratory_cycle_data)
        lo == IF n > 11 THEN n - 10 ELSE 1
    IN  [i \in 1..(n - lo) |-> respiratory_cycle_data[lo + i - 1]]
RisesOverTenPreceding ==
    LET current == respiratory_cycle_data[Len(respiratory_cycle_data)]
    IN  /\ Len(TenPreceding) * current.min_percentile
               > Sum([i \in 1..Len(TenPreceding) |-> TenPreceding[i].min_percentile])
        /\ Len(TenPreceding) * current.max_percentile
               > Sum([i \in 1..Len(TenPreceding) |-> TenPreceding[i].max_percentile])

\* C29: the baseline calculate_scores compares the most recent entry with
\* is the mean over the 10 entries immediately preceding it (all preceding
\* entries when there are fewer), so a pass whose most recent entry does
\* not rise above that mean in both percentiles scores no vae points.
C29_BaselineIsTenPreceding ==
    (last_pass.run /\ Len(respiratory_cycle_data) >= 3 /\ ~RisesOverTenPreceding)
        => vae_score = 0

(* --------------------- claims on the symmetry bonus -------------------- *)
\* the part of the vae_score of a paired rise that is not the magnitude term
Bonus ==
    vae_score - magnitude_points(min_increase(respiratory_cycle_data),
                                 max_increase(respiratory_cycle_data),
                                 Len(Baseline))

\* C30: for a paired rise the symmetry bonus is largest when the two rises
\* are equal: the bonus of a pass is never above the bonus of a pair whose
\* two rises both have the magnitude of its 5th percentile rise.
C30_EqualRisesEarnMostBonus ==
    (/\ last_pass.run /\ Len(respiratory_cycle_data) >= 3
     /\ MinPercentileRises /\ MaxPercentileRises)
        => Bonus <= symmetry_bonus(min_increase(respiratory_cycle_data),
                                   min_increase(respiratory_cycle_data))

(* ------------------- claims on the time-coverage term ------------------ *)
\* a pass scored the signal quality: a cycle is tracked and there is history
QualityScored == last_pass.run /\ Tracking /\ Len(respiratory_cycle_data) > 0
\* the part of the sqi that is neither the history nor the trend points
TimeCoverage ==
    sqi - history_points(respiratory_cycle_data) - trend_points(respiratory_cycle_data)
\* ticks from first_detected_respiratory_cycle_time to the newest entry
TrackedTicks ==
    respiratory_cycle_data[Len(respiratory_cycle_data)].timestamp
        - first_detected_respiratory_cycle_time.n

\* C31: the time-coverage component of the sqi is between 0 and 20 points,
\* one point per 6 seconds tracked and capped at 20: in particular it is
\* below 20 while fewer than 114 seconds (19 points) have been tracked.
C31_TimeCoverageGrowsToTwenty ==
    (QualityScored /\ TrackedTicks >= 0) =>
        /\ 0 <= TimeCoverage /\ TimeCoverage <= 20
        /\ TrackedTicks < 114 * sampling_rate => TimeCoverage < 20

(* ------------------ claims on the spacing of the passes ---------------- *)
\* C32: the triggering timestamps of two consecutive analysis passes differ
\* by at least SAMPLE_ANALYSIS_PERIOD (10 s, 20 ticks), also when
\* timestamps are zero or negative.
C32_PassesAtLeastPeriodApart ==
    [][(/\ CallbackStep
        /\ callback'.calls = FullPass
        /\ ~last_analysis_time.none)
          => callback'.t - last_analysis_time.n >= SAMPLE_ANALYSIS_PERIOD]_vars

(* ------------------------ claims on the threads ------------------------ *)
\* the samples among a sequence of deliveries, without the sentinel
RECURSIVE Samples(_)
Samples(seq) ==
    IF seq = <<>> THEN <<>>
    ELSE IF Head(seq).none THEN Samples(Tail(seq))
    ELSE <<Head(seq)>> \o Samples(Tail(seq))

\* C33: every sample the background thread hands over reaches the pipeline
\* through the queued signal only: each data_callback runs on the main
\* thread, no two of them run at the same time, and they take the samples
\* in the order the producer emitted them.
C33_CallbacksOnMainThreadInOrder ==
    /\ thread.raised # "AssertionError"
    /\ \A i \in 1..Len(handled) : handled[i].thread = "main"
    /\ Len(running) <= 1
    /\ Len(handled) <= Len(Samples(delivered))
    /\ \A i \in 1..Len(handled) : handled[i].sample = Samples(delivered)[i]
\* the second sample is in data_callback while the third waits in the queue
\* and the push of the first has been made
C33_Witness ==
    /\ main = "slot" /\ running = <<"main">>
    /\ Len(handled) = 2 /\ Len(posted) >= 1 /\ Len(queue) >= 1
    /\ callback.op = "data_callback"

C35_PeriodNoneIffFirstNone ==
    /\ detected_respiratory_period_length.none
           <=> first_detected_respiratory_cycle_time.none
    /\ QualityScored => ~first_detected_respiratory_cycle_time.none
\* a pass scored the signal quality of a cycle first detected at time 0.0
C35_Witness ==
    /\ QualityScored /\ sqi > 0
    /\ first_detected_respiratory_cycle_time = Number(0)

====
